---- MODULE Spec2Model ----
(***************************************************************************)
(* Model of the remote code execution service of neil-vqa/fridge:          *)
(*   src/server.py            ThreadingCodeExecutionHandler.handle         *)
(*   src/code_exec_client.py  CodeExecutionClient._parse_response          *)
(*                                                                         *)
(* Text is modelled as a sequence of tokens.  The literal markers of the   *)
(* wire format, the newline and the decimal digits are tokens of their     *)
(* own; every other token stands for a run of ordinary characters.         *)
(* A request is modelled by its length in bytes, by whether its bytes are  *)
(* valid UTF-8, and by the identity of the script text they encode.        *)
(***************************************************************************)
EXTENDS Integers, Sequences, FiniteSets, TLC

(***************************************************************************)
(* Bounds of the model.                                                    *)
(***************************************************************************)
NConns == 2         \* connections handled concurrently (SpecConc)
MaxShortReads == 2  \* recv() calls per connection that return a single byte
MaxTextLen == 2     \* tokens in a captured stdout / stderr (SpecCodec)

(***************************************************************************)
(* Program constants.                                                      *)
(***************************************************************************)
MAX_SCRIPT_SIZE == 61440
RECV_BUFSIZE == 4096

(***************************************************************************)
(* Tokens of the wire format.                                              *)
(***************************************************************************)
NL == "\n"
HDR == "--- Execution Result ---"
RCP == "Return Code: "
OUTM == "--- STDOUT ---"
ERRM == "--- STDERR ---"
EPFX == "ERROR:"
SPFX == "SERVER ERROR:"

SizeErrLine == <<EPFX, " Script size exceeds limit.">>
TimeoutLine == <<EPFX, " Execution timed out">>
DecodeErrLine == <<EPFX, " Invalid UTF-8 data received.">>
ServerErrLine == <<SPFX, " An internal error occurred.">>
ErrorLines == {SizeErrLine, TimeoutLine, DecodeErrLine, ServerErrLine}

(***************************************************************************)
(* Python str operations, on token sequences.                              *)
(***************************************************************************)
Digit(d) == <<"0", "1", "2", "3", "4", "5", "6", "7", "8", "9">>[d + 1]

DigitVal(t) == CHOOSE d \in 0..9 : Digit(d) = t

IsDigit(t) == \E d \in 0..9 : Digit(d) = t

RECURSIVE NatStr(_)
NatStr(n) == IF n < 10 THEN <<Digit(n)>> ELSE NatStr(n \div 10) \o <<Digit(n % 10)>>

\* f"{process.returncode}"
IntStr(n) == IF n < 0 THEN <<"-">> \o NatStr(-n) ELSE NatStr(n)

RECURSIVE NatVal(_)
NatVal(s) == IF Len(s) = 0 THEN 0
             ELSE 10 * NatVal(SubSeq(s, 1, Len(s) - 1)) + DigitVal(s[Len(s)])

AllDigits(s) == Len(s) > 0 /\ \A i \in 1..Len(s) : IsDigit(s[i])

\* int(s) accepts an optional sign followed by decimal digits
IsInt(s) == IF Len(s) > 0 /\ s[1] \in {"-", "+"} THEN AllDigits(Tail(s)) ELSE AllDigits(s)

IntVal(s) == IF s[1] = "-" THEN 0 - NatVal(Tail(s))
             ELSE IF s[1] = "+" THEN NatVal(Tail(s))
             ELSE NatVal(s)

Occurs(s, pat, i) == /\ i >= 1
                     /\ i + Len(pat) - 1 <= Len(s)
                     /\ SubSeq(s, i, i + Len(pat) - 1) = pat

\* str.find: the index of the first occurrence, 0 when there is none
Find(s, pat) == LET C == {i \in 1..Len(s) : Occurs(s, pat, i)}
                IN  IF C = {} THEN 0 ELSE CHOOSE i \in C : \A j \in C : i <= j

Contains(s, pat) == Find(s, pat) # 0

Before(s, i) == SubSeq(s, 1, i - 1)

After(s, pat, i) == SubSeq(s, i + Len(pat), Len(s))

\* str.split(pat): every occurrence, left to right, not overlapping
RECURSIVE Split(_, _)
Split(s, pat) == LET i == Find(s, pat)
                 IN  IF i = 0 THEN <<s>>
                     ELSE <<Before(s, i)>> \o Split(After(s, pat, i), pat)

\* str.split(pat, 1)
Split1(s, pat) == LET i == Find(s, pat)
                  IN  IF i = 0 THEN <<s>> ELSE <<Before(s, i), After(s, pat, i)>>

\* str.replace(pat, new, 1)
Replace1(s, pat, new) == LET i == Find(s, pat)
                         IN  IF i = 0 THEN s ELSE Before(s, i) \o new \o After(s, pat, i)

\* str.replace(pat, new)
RECURSIVE Replace(_, _, _)
Replace(s, pat, new) == LET i == Find(s, pat)
                        IN  IF i = 0 THEN s
                            ELSE Before(s, i) \o new \o Replace(After(s, pat, i), pat, new)

\* str.splitlines(): a trailing newline opens no further line
SplitLines(s) == LET parts == Split(s, <<NL>>)
                 IN  IF parts[Len(parts)] = <<>> THEN SubSeq(parts, 1, Len(parts) - 1)
                     ELSE parts

IsSpace(t) == t \in {" ", NL}

\* str.strip()
RECURSIVE LStrip(_)
LStrip(s) == IF Len(s) > 0 /\ IsSpace(s[1]) THEN LStrip(Tail(s)) ELSE s

RECURSIVE RStrip(_)
RStrip(s) == IF Len(s) > 0 /\ IsSpace(s[Len(s)]) THEN RStrip(SubSeq(s, 1, Len(s) - 1)) ELSE s

Strip(s) == RStrip(LStrip(s))

\* a classification that looks for an error prefix at the start of any line
StartsWithErrorAnyLine(s) ==
    \E i \in 1..Len(s) : s[i] \in {EPFX, SPFX} /\ (i = 1 \/ s[i - 1] = NL)

\* str.startswith(("ERROR:", "SERVER ERROR:"))
StartsWithError(s) == Len(s) > 0 /\ s[1] \in {EPFX, SPFX}

(***************************************************************************)
(* The wire codec: the server's success encoding and the client's parser.  *)
(***************************************************************************)
\* faulty variant of Encode: no newline between stdout and the STDERR marker
EncodeNoSep(rc, out, err) ==
    <<HDR, NL, RCP>> \o IntStr(rc) \o <<NL, NL, OUTM, NL>> \o out \o <<ERRM, NL>> \o err

\* server.py: the f-string of the success response
Encode(rc, out, err) ==
    <<HDR, NL, RCP>> \o IntStr(rc) \o <<NL, NL, OUTM, NL>> \o out \o <<NL, ERRM, NL>> \o err

ExecutionResult(rc, out, err) ==
    [kind |-> "ExecutionResult", return_code |-> rc, stdout |-> out, stderr |-> err]

ServerResponseError(msg) == [kind |-> "ServerResponseError", message |-> msg]

ParseFailure(response) == ServerResponseError(<<"Failed to parse server response: ">> \o response)

\* code_exec_client.py: CodeExecutionClient._parse_response
parse_response(response) ==
    IF StartsWithError(response)
    THEN ServerResponseError(<<"Server returned an error: ">> \o response)
    ELSE LET hr == Split1(response, <<NL, NL>>)
         IN  IF Len(hr) # 2 THEN ParseFailure(response)
             ELSE LET header == hr[1]
                      rest == hr[2]
                      lines == SplitLines(header)
                      parts == Split(rest, <<NL, ERRM, NL>>)
                  IN  IF Len(lines) < 2 THEN ParseFailure(response)
                      ELSE IF Len(parts) # 2 THEN ParseFailure(response)
                      ELSE LET return_code_str == Strip(Replace(lines[2], <<RCP>>, <<>>))
                               stdout == Replace1(parts[1], <<OUTM, NL>>, <<>>)
                           IN  IF ~IsInt(return_code_str) THEN ParseFailure(response)
                               ELSE ExecutionResult(IntVal(return_code_str), stdout, parts[2])

(***************************************************************************)
(* State.  Every per-connection variable is a function on Conns.           *)
(***************************************************************************)
VARIABLES
    pc,            \* position of the handler thread in handle()
    total,         \* peer: bytes it sends before it half-closes
    valid,         \* peer: whether those bytes are valid UTF-8
    script,        \* peer: the script text those bytes encode
    peer_shut,     \* peer: it has shut down its write side
    reads,         \* peer: it reads what the handler sends
    sock,          \* "open", or "reset" once the connection is broken
    script_bytes,  \* len(script_bytes)
    short_reads,   \* recv() calls that returned a single byte
    eof,           \* recv() has returned b""
    attempts,      \* the arguments of the sendall() calls made, in order
    wire,          \* the tokens delivered to the peer, in order
    exec_dir,      \* name of the TemporaryDirectory, "none" before it exists
    process,       \* "none", "running", "exited", "killed"
    ran,           \* content of main.py when the interpreter was started
    result,        \* CompletedProcess: returncode, stdout, stderr
    expired_output,\* output captured before the kill (TimeoutExpired.output)
    exc,           \* exception propagating out of the with block
    escaped,       \* an exception left handle()
    dirs,          \* file system: the existing scratch directories
    files,         \* file system: content of <dir>/main.py
    codec,         \* SpecCodec: input, response and parsed value
    client         \* SpecClient: one CodeExecutionClient and its connection

vars == <<pc, total, valid, script, peer_shut, reads, sock, script_bytes, short_reads, eof,
          attempts, wire, exec_dir, process, ran, result, expired_output, exc,
          escaped, dirs, files, codec, client>>

peer_vars == <<total, valid, script, reads>>
fs_vars == <<dirs, files>>
proc_vars == <<process, ran, result, expired_output>>
io_vars == <<attempts, wire, sock>>
read_vars == <<script_bytes, short_reads, eof>>

Conns == 1..NConns

DirName(i) == <<"tmp1", "tmp2", "tmp3", "tmp4", "tmp5">>[i]

DirNames == {DirName(i) : i \in 1..NConns}

ScriptOf(c) == <<"s1", "s2", "s3", "s4", "s5">>[c]

NoResult == [returncode |-> 0, stdout |-> <<>>, stderr |-> <<>>]

NoCodec == [at |-> "idle"]

NoOutcome == [kind |-> "none"]

\* code_exec_client.py:77  a client that was constructed and never connected
NoClient ==
    [socket |-> "None", wr |-> "none", at |-> "idle", calls |-> 0, connects |-> 0,
     results |-> 0, timed_out |-> FALSE, half_closed |-> FALSE, late |-> FALSE, began_half_closed |-> FALSE,
     incoming |-> <<>>, incoming_valid |-> TRUE, buffer |-> <<>>, outcome |-> NoOutcome]

InitHandlers ==
    /\ pc = [c \in Conns |-> "idle"]
    /\ total = [c \in Conns |-> 0]
    /\ valid = [c \in Conns |-> TRUE]
    /\ script = [c \in Conns |-> "none"]
    /\ peer_shut = [c \in Conns |-> FALSE]
    /\ reads = [c \in Conns |-> TRUE]
    /\ sock = [c \in Conns |-> "open"]
    /\ script_bytes = [c \in Conns |-> 0]
    /\ short_reads = [c \in Conns |-> 0]
    /\ eof = [c \in Conns |-> FALSE]
    /\ attempts = [c \in Conns |-> <<>>]
    /\ wire = [c \in Conns |-> <<>>]
    /\ exec_dir = [c \in Conns |-> "none"]
    /\ process = [c \in Conns |-> "none"]
    /\ ran = [c \in Conns |-> "none"]
    /\ result = [c \in Conns |-> NoResult]
    /\ expired_output = [c \in Conns |-> <<>>]
    /\ exc = [c \in Conns |-> "none"]
    /\ escaped = [c \in Conns |-> FALSE]
    /\ dirs = {}
    /\ files = [d \in DirNames |-> "absent"]

Init == InitHandlers /\ codec = NoCodec /\ client = NoClient

(***************************************************************************)
(* socket.sendall(msg): it returns once every byte is sent, or raises      *)
(* OSError after a proper prefix of msg (possibly nothing) was sent.  A    *)
(* failure may leave the connection broken (EPIPE, ECONNRESET) or usable   *)
(* (ENOMEM, ENOBUFS).  On a broken connection nothing is sent.             *)
(***************************************************************************)
\* the faults of a specification: whether a failed write may have sent a
\* non-empty prefix, and the states a failed write may leave the socket in
AllFaults == [partial |-> TRUE, after |-> {"open", "reset"}]
FatalFaults == [partial |-> FALSE, after |-> {"reset"}]

Cuts(msg, faults) == IF faults.partial THEN 0..(Len(msg) - 1) ELSE {0}

SendOutcomes(msg, sk, faults) ==
    IF sk = "reset"
    THEN {[ok |-> FALSE, sent |-> <<>>, sock |-> "reset"]}
    ELSE {[ok |-> TRUE, sent |-> msg, sock |-> "open"]}
         \cup {[ok |-> FALSE, sent |-> SubSeq(msg, 1, k), sock |-> s] :
                   k \in Cuts(msg, faults), s \in faults.after}

\* output of a process that is larger than the socket buffers of the connection
BULK == "<more output than the socket buffers hold>"

Fits(msg) == ~Contains(msg, <<BULK>>)

\* sendall on a blocking socket without a timeout (socketserver's default)
\* returns or raises only once the peer has taken what the buffers cannot
\* hold, or once the connection is broken
CanWrite(c, msg) == reads[c] \/ Fits(msg) \/ sock[c] = "reset"

sendall(c, msg, o) ==
    /\ attempts' = [attempts EXCEPT ![c] = Append(@, msg)]
    /\ wire' = [wire EXCEPT ![c] = @ \o o.sent]
    /\ sock' = [sock EXCEPT ![c] = o.sock]

(***************************************************************************)
(* The peer and the network.                                               *)
(***************************************************************************)
\* socketserver accepts a connection and starts handle() in a thread of its own
Accept(c, Sizes, Valids, Scripts, Readers) ==
    /\ pc[c] = "idle"
    /\ \E n \in Sizes, v \in Valids, s \in Scripts, r \in Readers :
          /\ total' = [total EXCEPT ![c] = n]
          /\ valid' = [valid EXCEPT ![c] = v]
          /\ script' = [script EXCEPT ![c] = s]
          /\ reads' = [reads EXCEPT ![c] = r]
    /\ pc' = [pc EXCEPT ![c] = "loop"]
    /\ UNCHANGED <<peer_shut, read_vars, io_vars, exec_dir, proc_vars, exc, escaped,
                   fs_vars, codec, client>>

\* the peer half-closes: after its bytes the handler reads end-of-input
PeerShutdown(c) ==
    /\ pc[c] \notin {"idle", "done"}
    /\ ~peer_shut[c]
    /\ peer_shut' = [peer_shut EXCEPT ![c] = TRUE]
    /\ UNCHANGED <<pc, peer_vars, read_vars, io_vars, exec_dir, proc_vars, exc, escaped,
                   fs_vars, codec, client>>

\* the connection breaks: every later recv() and sendall() raises
PeerReset(c) ==
    /\ pc[c] \notin {"idle", "done"}
    /\ sock[c] = "open"
    /\ sock' = [sock EXCEPT ![c] = "reset"]
    /\ UNCHANGED <<pc, peer_vars, peer_shut, read_vars, attempts, wire, exec_dir,
                   proc_vars, exc, escaped, fs_vars, codec, client>>

(***************************************************************************)
(* ThreadingCodeExecutionHandler.handle, one action per step.              *)
(***************************************************************************)
\* faulty variant of LimitExceeded: a request of exactly the maximum is rejected
LimitExceededInclusive(n) == n >= MAX_SCRIPT_SIZE

\* server.py:25
LimitExceeded(n) == n > MAX_SCRIPT_SIZE

\* server.py:25  the test at the top of the read loop
CheckSize(c) ==
    /\ pc[c] = "loop"
    /\ pc' = [pc EXCEPT ![c] = IF LimitExceeded(script_bytes[c]) THEN "send_size" ELSE "recv"]
    /\ UNCHANGED <<peer_vars, peer_shut, read_vars, io_vars, exec_dir, proc_vars, exc,
                   escaped, fs_vars, codec, client>>

\* server.py:27-28  sendall of the size error, then return; a failed write is
\* caught by `except Exception`
SendSizeError(c, faults) ==
    /\ pc[c] = "send_size"
    /\ \E o \in SendOutcomes(SizeErrLine, sock[c], faults) :
          /\ sendall(c, SizeErrLine, o)
          /\ pc' = [pc EXCEPT ![c] = IF o.ok THEN "finally" ELSE "except_any"]
    /\ UNCHANGED <<peer_vars, peer_shut, read_vars, exec_dir, proc_vars, exc, escaped,
                   fs_vars, codec, client>>

\* the sizes recv(4096) may return when `left` bytes are still to come
ChunkSizes(left, shorts) ==
    {IF left < RECV_BUFSIZE THEN left ELSE RECV_BUFSIZE}
    \cup (IF shorts < MaxShortReads THEN {1} ELSE {})

\* faulty variant of AfterChunk: a chunk shorter than the buffer size is taken
\* for the end of the request
AfterChunkShortIsLast(n) == IF n < RECV_BUFSIZE THEN "decode" ELSE "loop"

\* server.py:31-33  a non-empty chunk is appended and the loop goes on
AfterChunk(n) == "loop"

\* server.py:30-33  recv returns a chunk, or b"" at end-of-input, or raises
Recv(c) ==
    /\ pc[c] = "recv"
    /\ \/ /\ sock[c] = "reset"
          /\ pc' = [pc EXCEPT ![c] = "except_any"]
          /\ UNCHANGED read_vars
       \/ /\ sock[c] = "open"
          /\ script_bytes[c] < total[c]
          /\ \E n \in ChunkSizes(total[c] - script_bytes[c], short_reads[c]) :
                /\ script_bytes' = [script_bytes EXCEPT ![c] = @ + n]
                /\ short_reads' = [short_reads EXCEPT ![c] =
                                      IF n = 1 /\ total[c] - script_bytes[c] > 1
                                      THEN @ + 1 ELSE @]
                /\ pc' = [pc EXCEPT ![c] = AfterChunk(n)]
          /\ UNCHANGED eof
       \/ /\ sock[c] = "open"
          /\ script_bytes[c] = total[c]
          /\ peer_shut[c]
          /\ eof' = [eof EXCEPT ![c] = TRUE]
          /\ pc' = [pc EXCEPT ![c] = "decode"]
          /\ UNCHANGED <<script_bytes, short_reads>>
    /\ UNCHANGED <<peer_vars, peer_shut, io_vars, exec_dir, proc_vars, exc, escaped,
                   fs_vars, codec, client>>

\* faulty variants of AfterRead: no test for the empty request; a decode that
\* never fails
AfterReadNoEmptyTest(n, v) == IF v THEN "mkdtemp" ELSE "except_decode"

AfterReadLenient(n, v) == IF n = 0 THEN "finally" ELSE "mkdtemp"

\* server.py:35-39  where handle() continues after the read loop, for a buffer
\* of n bytes that is valid UTF-8 (v) or not
AfterRead(n, v) == IF n = 0 THEN "finally"
                   ELSE IF v THEN "mkdtemp"
                   ELSE "except_decode"

\* server.py:35-39  empty request: return; else script_bytes.decode("utf-8")
Decode(c) ==
    /\ pc[c] = "decode"
    /\ pc' = [pc EXCEPT ![c] = AfterRead(script_bytes[c], valid[c])]
    /\ UNCHANGED <<peer_vars, peer_shut, read_vars, io_vars, exec_dir, proc_vars, exc,
                   escaped, fs_vars, codec, client>>

\* faulty variant of FreshDirs: one fixed directory for every request
SharedDir(ds) == {DirName(1)}

\* tempfile.mkdtemp: a name that does not exist yet
FreshDirs(ds) == DirNames \ ds

\* server.py:41  tempfile.TemporaryDirectory(), which may raise OSError
MakeTempDir(c) ==
    /\ pc[c] = "mkdtemp"
    /\ \/ \E d \in FreshDirs(dirs) :
             /\ dirs' = dirs \cup {d}
             /\ exec_dir' = [exec_dir EXCEPT ![c] = d]
             /\ pc' = [pc EXCEPT ![c] = "open"]
             /\ UNCHANGED files
       \/ /\ pc' = [pc EXCEPT ![c] = "except_any"]
          /\ UNCHANGED <<exec_dir, fs_vars>>
    /\ UNCHANGED <<peer_vars, peer_shut, read_vars, io_vars, proc_vars, exc, escaped,
                   codec, client>>

\* server.py:45-47  open(script_path, "w") and write; a failure may leave a
\* truncated file behind
WriteScript(c) ==
    /\ pc[c] = "open"
    /\ \/ /\ files' = [files EXCEPT ![exec_dir[c]] = script[c]]
          /\ pc' = [pc EXCEPT ![c] = "run"]
          /\ UNCHANGED exc
       \/ /\ \E f \in {files[exec_dir[c]], "truncated"} :
                files' = [files EXCEPT ![exec_dir[c]] = f]
          /\ exc' = [exc EXCEPT ![c] = "Exception"]
          /\ pc' = [pc EXCEPT ![c] = "cleanup"]
    /\ UNCHANGED <<peer_vars, peer_shut, read_vars, io_vars, exec_dir, proc_vars, escaped,
                   dirs, codec, client>>

\* server.py:53-60  subprocess.run starts ["uv", "run", "main.py"] in exec_dir,
\* or raises (FileNotFoundError, OSError)
StartProcess(c) ==
    /\ pc[c] = "run"
    /\ \/ /\ process' = [process EXCEPT ![c] = "running"]
          /\ ran' = [ran EXCEPT ![c] = files[exec_dir[c]]]
          /\ pc' = [pc EXCEPT ![c] = "wait"]
          /\ UNCHANGED exc
       \/ /\ exc' = [exc EXCEPT ![c] = "Exception"]
          /\ pc' = [pc EXCEPT ![c] = "cleanup"]
          /\ UNCHANGED <<process, ran>>
    /\ UNCHANGED <<peer_vars, peer_shut, read_vars, io_vars, exec_dir, result,
                   expired_output, escaped, fs_vars, codec, client>>

\* subprocess.run returns: the process ended within the timeout.  With
\* text=True the captured bytes are decoded, which raises UnicodeDecodeError
\* when they are not valid text.
ProcessExits(c, RCs, Outs, Errs, Decodable) ==
    /\ pc[c] = "wait"
    /\ process[c] = "running"
    /\ process' = [process EXCEPT ![c] = "exited"]
    /\ \E ok \in Decodable :
          IF ok
          THEN /\ \E rc \in RCs, out \in Outs, err \in Errs :
                     result' = [result EXCEPT ![c] =
                                   [returncode |-> rc, stdout |-> out, stderr |-> err]]
               /\ pc' = [pc EXCEPT ![c] = "send_result"]
               /\ UNCHANGED exc
          ELSE /\ exc' = [exc EXCEPT ![c] = "UnicodeDecodeError"]
               /\ pc' = [pc EXCEPT ![c] = "cleanup"]
               /\ UNCHANGED result
    /\ UNCHANGED <<peer_vars, peer_shut, read_vars, io_vars, exec_dir, ran, expired_output,
                   escaped, fs_vars, codec, client>>

\* faulty variant of KillOnTimeout: the process is left running
NotKilled(p) == p

\* subprocess.run on timeout: process.kill(), process.wait(), then re-raise
KillOnTimeout(p) == "killed"

\* server.py:57,74  EXECUTION_TIMEOUT passes with the process still running:
\* subprocess.run kills it and raises TimeoutExpired, which carries the output
\* captured so far
TimeoutExpires(c, Outs) ==
    /\ pc[c] = "wait"
    /\ process[c] = "running"
    /\ process' = [process EXCEPT ![c] = KillOnTimeout(@)]
    /\ \E out \in Outs : expired_output' = [expired_output EXCEPT ![c] = out]
    /\ pc' = [pc EXCEPT ![c] = "send_timeout"]
    /\ UNCHANGED <<peer_vars, peer_shut, read_vars, io_vars, exec_dir, ran, result, exc,
                   escaped, fs_vars, codec, client>>

\* server.py:65-70
response(c) == Encode(result[c].returncode, result[c].stdout, result[c].stderr)

\* server.py:72  sendall of the success encoding, inside the with block
SendResult(c, faults) ==
    /\ pc[c] = "send_result"
    /\ CanWrite(c, response(c))
    /\ \E o \in SendOutcomes(response(c), sock[c], faults) :
          /\ sendall(c, response(c), o)
          /\ exc' = [exc EXCEPT ![c] = IF o.ok THEN "none" ELSE "Exception"]
    /\ pc' = [pc EXCEPT ![c] = "cleanup"]
    /\ UNCHANGED <<peer_vars, peer_shut, read_vars, exec_dir, proc_vars, escaped, fs_vars,
                   codec, client>>

\* faulty variant of TimeoutMessage: the captured output is appended
TimeoutMessageWithOutput(c) == TimeoutLine \o expired_output[c]

\* server.py:78
TimeoutMessage(c) == TimeoutLine

\* server.py:74-78  except subprocess.TimeoutExpired, inside the with block
SendTimeout(c, faults) ==
    /\ pc[c] = "send_timeout"
    /\ \E o \in SendOutcomes(TimeoutMessage(c), sock[c], faults) :
          /\ sendall(c, TimeoutMessage(c), o)
          /\ exc' = [exc EXCEPT ![c] = IF o.ok THEN "none" ELSE "Exception"]
    /\ pc' = [pc EXCEPT ![c] = "cleanup"]
    /\ UNCHANGED <<peer_vars, peer_shut, read_vars, exec_dir, proc_vars, escaped, fs_vars,
                   codec, client>>

\* faulty variants of RemoveTree: no removal when an exception is propagating;
\* removal of every scratch directory
RemoveOnSuccessOnly(ds, d, e) == IF e = "none" THEN ds \ {d} ELSE ds

RemoveEverything(ds, d, e) == {}

\* TemporaryDirectory.__exit__: rmtree of the directory, whatever the exit
\* (the removal itself is taken to succeed)
RemoveTree(ds, d, e) == ds \ {d}

\* server.py:41  leaving the with block, normally or by an exception
Cleanup(c) ==
    /\ pc[c] = "cleanup"
    /\ dirs' = RemoveTree(dirs, exec_dir[c], exc[c])
    /\ files' = [files EXCEPT ![exec_dir[c]] =
                    IF exec_dir[c] \in dirs' THEN @ ELSE "absent"]
    /\ pc' = [pc EXCEPT ![c] = IF exc[c] = "none" THEN "finally"
                               ELSE IF exc[c] = "UnicodeDecodeError" THEN "except_decode"
                               ELSE "except_any"]
    /\ UNCHANGED <<peer_vars, peer_shut, read_vars, io_vars, exec_dir, proc_vars, exc,
                   escaped, codec, client>>

\* server.py:80-82  except UnicodeDecodeError; a failed write leaves handle()
ExceptDecode(c, faults) ==
    /\ pc[c] = "except_decode"
    /\ \E o \in SendOutcomes(DecodeErrLine, sock[c], faults) :
          /\ sendall(c, DecodeErrLine, o)
          /\ escaped' = [escaped EXCEPT ![c] = ~o.ok]
    /\ pc' = [pc EXCEPT ![c] = "finally"]
    /\ UNCHANGED <<peer_vars, peer_shut, read_vars, exec_dir, proc_vars, exc, fs_vars,
                   codec, client>>

\* server.py:83-89  except Exception; a failed write leaves handle()
ExceptAny(c, faults) ==
    /\ pc[c] = "except_any"
    /\ \E o \in SendOutcomes(ServerErrLine, sock[c], faults) :
          /\ sendall(c, ServerErrLine, o)
          /\ escaped' = [escaped EXCEPT ![c] = ~o.ok]
    /\ pc' = [pc EXCEPT ![c] = "finally"]
    /\ UNCHANGED <<peer_vars, peer_shut, read_vars, exec_dir, proc_vars, exc, fs_vars,
                   codec, client>>

\* server.py:90-91  finally; handle() is left and socketserver closes the socket
Finally(c) ==
    /\ pc[c] = "finally"
    /\ pc' = [pc EXCEPT ![c] = "done"]
    /\ UNCHANGED <<peer_vars, peer_shut, read_vars, io_vars, exec_dir, proc_vars, exc,
                   escaped, fs_vars, codec, client>>

(***************************************************************************)
(* Spec: one connection, every request size around the limit, every way a  *)
(* write can fail.                                                         *)
(***************************************************************************)
Sizes == {0, 1, RECV_BUFSIZE + 1, MAX_SCRIPT_SIZE, MAX_SCRIPT_SIZE + 1,
          MAX_SCRIPT_SIZE + 2 * RECV_BUFSIZE}
RCs == {0, 42, -9}
Outs == {<<>>, <<"ok", NL>>}
Errs == {<<>>, <<"boom", NL>>}

Next ==
    \E c \in {1} :
        \/ Accept(c, Sizes, BOOLEAN, {ScriptOf(c)}, {TRUE})
        \/ PeerShutdown(c)
        \/ PeerReset(c)
        \/ CheckSize(c)
        \/ SendSizeError(c, AllFaults)
        \/ Recv(c)
        \/ Decode(c)
        \/ MakeTempDir(c)
        \/ WriteScript(c)
        \/ StartProcess(c)
        \/ ProcessExits(c, RCs, Outs, Errs, BOOLEAN)
        \/ TimeoutExpires(c, Outs)
        \/ SendResult(c, AllFaults)
        \/ SendTimeout(c, AllFaults)
        \/ Cleanup(c)
        \/ ExceptDecode(c, AllFaults)
        \/ ExceptAny(c, AllFaults)
        \/ Finally(c)

Spec == Init /\ [][Next]_vars

(***************************************************************************)
(* SpecConc: NConns connections handled by concurrent threads.  Every      *)
(* connection sends a script of its own, which prints its own name.        *)
(***************************************************************************)
NextConc ==
    \E c \in Conns :
        \/ Accept(c, {1}, {TRUE}, {ScriptOf(c)}, {TRUE})
        \/ PeerShutdown(c)
        \/ CheckSize(c)
        \/ Recv(c)
        \/ Decode(c)
        \/ MakeTempDir(c)
        \/ WriteScript(c)
        \/ StartProcess(c)
        \/ ProcessExits(c, {0}, {<<ran[c], NL>>}, {<<>>}, {TRUE})
        \/ TimeoutExpires(c, {<<>>})
        \/ SendResult(c, FatalFaults)
        \/ SendTimeout(c, FatalFaults)
        \/ Cleanup(c)
        \/ ExceptAny(c, FatalFaults)
        \/ Finally(c)

SpecConc == Init /\ [][NextConc]_vars

(***************************************************************************)
(* SpecCodec: the success encoding of every result within the bounds,      *)
(* decoded by the client's parser.                                         *)
(***************************************************************************)
Alphabet == {"ok", NL, OUTM, ERRM, EPFX, SPFX}

Texts == UNION {[1..n -> Alphabet] : n \in 0..MaxTextLen}

CodecRCs == {-9, 0, 7, 42, 130}

\* Responses handed to the parser as they are: the encodings of a few results,
\* cut short, with one token removed, or with one token replaced.
RawBases == {Encode(7, <<"ok">>, <<"ok">>), Encode(-9, <<>>, <<>>)}

DropAt(s, i) == SubSeq(s, 1, i - 1) \o SubSeq(s, i + 1, Len(s))

PutAt(s, i, t) == [s EXCEPT ![i] = t]

RawTokens == {"junk", NL, HDR, RCP, OUTM, ERRM, "7"}

RawResponses ==
    UNION {   {SubSeq(b, 1, n) : n \in 0..Len(b)}
           \cup {DropAt(b, i) : i \in 1..Len(b)}
           \cup {PutAt(b, i, t) : i \in 1..Len(b), t \in RawTokens}
           : b \in RawBases}

InitCodec ==
    /\ InitHandlers
    /\ client = NoClient
    /\ \/ \E rc \in CodecRCs, out \in Texts, err \in Texts :
             codec = [at |-> "result", returncode |-> rc, stdout |-> out, stderr |-> err,
                      response |-> <<>>, parsed |-> ServerResponseError(<<>>)]
       \/ \E r \in RawResponses :
             codec = [at |-> "raw", returncode |-> 0, stdout |-> <<>>, stderr |-> <<>>,
                      response |-> r, parsed |-> ServerResponseError(<<>>)]

\* server.py:65-70  the handler encodes the result of the process
CodecEncode ==
    /\ codec.at = "result"
    /\ codec' = [codec EXCEPT !.at = "response",
                              !.response = Encode(codec.returncode, codec.stdout,
                                                  codec.stderr)]
    /\ UNCHANGED <<pc, peer_vars, peer_shut, read_vars, io_vars, exec_dir, proc_vars, exc,
                   escaped, fs_vars, client>>

\* code_exec_client.py:161  the client parses the response it received
CodecParse ==
    /\ codec.at \in {"response", "raw"}
    /\ codec' = [codec EXCEPT !.at = IF codec.at = "raw" THEN "raw_parsed" ELSE "parsed",
                              !.parsed = parse_response(codec.response)]
    /\ UNCHANGED <<pc, peer_vars, peer_shut, read_vars, io_vars, exec_dir, proc_vars, exc,
                   escaped, fs_vars, client>>

NextCodec == CodecEncode \/ CodecParse

SpecCodec == InitCodec /\ [][NextCodec]_vars

(***************************************************************************)
(* Vocabulary of the properties.                                           *)
(***************************************************************************)
Done(c) == pc[c] = "done"

IsPrefix(s, t) == Len(s) <= Len(t) /\ SubSeq(t, 1, Len(s)) = s

IsSuccessEncoding(m) == Len(m) > 0 /\ m[1] = HDR

FirstAttempt(c) == IF attempts[c] = <<>> THEN <<>> ELSE attempts[c][1]

Attempted(c) == {attempts[c][i] : i \in 1..Len(attempts[c])}

Terminated(c) == process[c] \in {"exited", "killed"}

\* the positions of handle() inside the with block of the scratch directory
InWith == {"open", "run", "wait", "send_result", "send_timeout", "cleanup"}

\* the handler left the wait for the process without the process having exited
TimedOut(c) == pc[c] # "wait" /\ process[c] \in {"running", "killed"}

HasMarker(t) == Contains(t, <<OUTM>>) \/ Contains(t, <<ERRM>>)

(***************************************************************************)
(* C1.  For a non-empty request the handler writes exactly one response:   *)
(* it makes at least one write, and what reaches the peer is never made of *)
(* two responses (a success body followed by an error line, or two error   *)
(* lines), also when a write fails.  Violated: a failed write at           *)
(* server.py:27, 72 or 78 is caught at server.py:83 and followed by the    *)
(* write of the SERVER ERROR line.                                         *)
(***************************************************************************)
C1_ExactlyOneResponse ==
    \A c \in Conns :
        /\ Done(c) /\ script_bytes[c] > 0 => attempts[c] # <<>>
        /\ wire[c] # <<>> => \E m \in Attempted(c) : IsPrefix(wire[c], m)

(***************************************************************************)
(* C2.  The size error is the handler's response if and only if the        *)
(* request is larger than MAX_SCRIPT_SIZE, however recv() splits it; a     *)
(* request over the limit never reaches the decode, the scratch directory  *)
(* or the interpreter, and recv() is never called with a buffer over the   *)
(* limit.  (With a request over the limit, the only other response is the  *)
(* SERVER ERROR line of a recv() that raised.)                             *)
(***************************************************************************)
C2_SizeLimit ==
    \A c \in Conns :
        /\ Done(c) => (FirstAttempt(c) = SizeErrLine <=> script_bytes[c] > MAX_SCRIPT_SIZE)
        /\ Done(c) /\ total[c] > MAX_SCRIPT_SIZE =>
              \/ FirstAttempt(c) = SizeErrLine
              \/ /\ FirstAttempt(c) = ServerErrLine
                 /\ sock[c] = "reset"
                 /\ script_bytes[c] <= MAX_SCRIPT_SIZE
        /\ Done(c) /\ total[c] <= MAX_SCRIPT_SIZE => SizeErrLine \notin Attempted(c)
        /\ total[c] > MAX_SCRIPT_SIZE =>
              ~eof[c] /\ exec_dir[c] = "none" /\ process[c] = "none"
        /\ pc[c] = "recv" => script_bytes[c] <= MAX_SCRIPT_SIZE
        /\ script_bytes[c] <= MAX_SCRIPT_SIZE + RECV_BUFSIZE

\* a request of MAX_SCRIPT_SIZE + 1 bytes, read with short chunks, is rejected
C2_Witness ==
    /\ Done(1)
    /\ total[1] = MAX_SCRIPT_SIZE + 1
    /\ short_reads[1] > 0
    /\ wire[1] = SizeErrLine

\* a request of exactly MAX_SCRIPT_SIZE bytes is executed
C2_WitnessAccepted ==
    /\ Done(1)
    /\ total[1] = MAX_SCRIPT_SIZE
    /\ IsSuccessEncoding(wire[1])

(***************************************************************************)
(* C3.  A non-empty request within the limit that is not valid UTF-8 gets  *)
(* the DecodeFailure line as the only response, and neither a scratch      *)
(* directory nor an interpreter process exists at any time.                *)
(***************************************************************************)
C3_DecodeFailure ==
    \A c \in Conns :
        eof[c] /\ script_bytes[c] > 0 /\ ~valid[c] =>
            /\ exec_dir[c] = "none"
            /\ process[c] = "none"
            /\ pc[c] \in {"decode", "except_decode", "finally", "done"}
            /\ pc[c] \in {"finally", "done"} => attempts[c] = <<DecodeErrLine>>
            /\ IsPrefix(wire[c], DecodeErrLine)

C3_Witness ==
    /\ Done(1)
    /\ ~valid[1]
    /\ script_bytes[1] = MAX_SCRIPT_SIZE
    /\ wire[1] = DecodeErrLine

(***************************************************************************)
(* C4.  End-of-input with zero bytes read: the handler ends without        *)
(* writing, without a scratch directory and without an interpreter.        *)
(***************************************************************************)
C4_EmptyRequest ==
    \A c \in Conns :
        eof[c] /\ script_bytes[c] = 0 =>
            /\ attempts[c] = <<>>
            /\ wire[c] = <<>>
            /\ exec_dir[c] = "none"
            /\ process[c] = "none"
            /\ ~escaped[c]
            /\ pc[c] \in {"decode", "finally", "done"}

C4_Witness == Done(1) /\ eof[1] /\ total[1] = 0 /\ valid[1]

(***************************************************************************)
(* C5.  Round trip: for every return code and every stdout and stderr      *)
(* that hold neither marker, parsing the success encoding gives back the   *)
(* same return code, stdout and stderr.                                    *)
(***************************************************************************)
C5_RoundTrip ==
    codec.at = "parsed" /\ ~HasMarker(codec.stdout) /\ ~HasMarker(codec.stderr) =>
        codec.parsed = ExecutionResult(codec.returncode, codec.stdout, codec.stderr)

\* a negative return code, blank lines in stdout, an empty stderr
C5_Witness ==
    /\ codec.at = "parsed"
    /\ codec.returncode < 0
    /\ codec.stdout = <<NL, NL>>
    /\ codec.stderr = <<>>
    /\ codec.parsed = ExecutionResult(codec.returncode, codec.stdout, codec.stderr)

(***************************************************************************)
(* C6.  On a timeout the process is killed before the handler writes       *)
(* anything, the response written for the timeout is the TimeoutExpired    *)
(* line, and nothing the handler writes is a success encoding or holds the *)
(* output captured before the kill.                                        *)
(***************************************************************************)
C6_Timeout ==
    \A c \in Conns :
        TimedOut(c) =>
            /\ process[c] = "killed"
            /\ pc[c] = "send_timeout" => attempts[c] = <<>>
            /\ pc[c] # "send_timeout" => FirstAttempt(c) = TimeoutLine
            /\ \A m \in Attempted(c) :
                  /\ ~IsSuccessEncoding(m)
                  /\ expired_output[c] # <<>> => ~Contains(m, expired_output[c])
            /\ expired_output[c] # <<>> => ~Contains(wire[c], expired_output[c])

C6_Witness ==
    /\ Done(1)
    /\ process[1] = "killed"
    /\ expired_output[1] # <<>>
    /\ wire[1] = TimeoutLine

(***************************************************************************)
(* C7.  Once a handler has finished, the scratch directory it created and  *)
(* the script file in it do not exist, on every exit path.                 *)
(***************************************************************************)
C7_ScratchRemoved ==
    \A c \in Conns :
        Done(c) /\ exec_dir[c] # "none" =>
            exec_dir[c] \notin dirs /\ files[exec_dir[c]] = "absent"

\* the exit by a failed write of the response, with an exception leaving handle()
C7_Witness ==
    /\ Done(1)
    /\ exec_dir[1] # "none"
    /\ process[1] = "exited"
    /\ escaped[1]
    /\ Len(attempts[1]) = 2

(***************************************************************************)
(* C8, as stated.  Nothing of a response reaches the peer before the       *)
(* request was read up to end-of-input and executed, whatever the outcome. *)
(***************************************************************************)
C8_Original ==
    \A c \in Conns : wire[c] # <<>> => eof[c] /\ Terminated(c)

(***************************************************************************)
(* C8, amended.  A success encoding or the timeout line is written only    *)
(* after the request was read up to end-of-input and the interpreter       *)
(* process has ended (exited or killed); the size error line is written    *)
(* before end-of-input is read and without any execution.                  *)
(***************************************************************************)
C8_ResponseAfterExecution ==
    \A c \in Conns :
        /\ \A m \in Attempted(c) :
              IsSuccessEncoding(m) \/ m = TimeoutLine => eof[c] /\ Terminated(c)
        /\ SizeErrLine \in Attempted(c) => ~eof[c] /\ process[c] = "none"

C8_Witness ==
    /\ Done(1)
    /\ eof[1]
    /\ process[1] = "exited"
    /\ short_reads[1] > 0
    /\ wire[1] = response(1)

(***************************************************************************)
(* C9.  Handlers that are inside their with block at the same time hold    *)
(* different scratch directories, and the main.py an interpreter is        *)
(* started on holds the script received on its own connection.             *)
(***************************************************************************)
C9_Isolation ==
    \A c \in Conns :
        /\ \A d \in Conns \ {c} :
              pc[c] \in InWith /\ pc[d] \in InWith => exec_dir[c] # exec_dir[d]
        /\ pc[c] \in InWith => exec_dir[c] \in dirs
        /\ pc[c] \in {"run", "wait"} => files[exec_dir[c]] = script[c]
        /\ process[c] # "none" => ran[c] = script[c]

C9_Witness ==
    /\ process[1] = "running"
    /\ process[2] = "running"
    /\ ran[1] = "s1"
    /\ ran[2] = "s2"

(***************************************************************************)
(* C10.  A step of one handler, a failing one included, changes nothing of *)
(* another connection: neither its handler's state nor its scratch         *)
(* directory; and the response of every handler is the one its own request *)
(* and its own process determine.                                          *)
(***************************************************************************)
Local(c) == <<pc[c], total[c], valid[c], script[c], peer_shut[c], sock[c], script_bytes[c],
              short_reads[c], eof[c], attempts[c], wire[c], exec_dir[c], process[c],
              ran[c], result[c], expired_output[c], exc[c], escaped[c]>>

\* SpecConc: script c prints its own name and exits with 0
OwnResponse(c) ==
    IF process[c] = "exited" THEN Encode(0, <<script[c], NL>>, <<>>)
    ELSE IF process[c] = "killed" THEN TimeoutLine
    ELSE ServerErrLine

OwnOutcome(c) ==
    /\ attempts[c] # <<>> => FirstAttempt(c) = OwnResponse(c)
    /\ Done(c) => attempts[c] # <<>>

C10_Independent ==
    [][\A c \in Conns :
          /\ OwnOutcome(c)'
          /\ \A d \in Conns \ {c} :
                Local(d)' # Local(d) =>
                    /\ Local(c)' = Local(c)
                    /\ pc[c] \in InWith =>
                          /\ exec_dir[c] \in dirs'
                          /\ files'[exec_dir[c]] = files[exec_dir[c]]]_vars

\* handler 1 has failed (a write failed and the exception left handle()) while
\* handler 2 is about to send the result of its own script
C10_Witness ==
    /\ Done(1)
    /\ escaped[1]
    /\ pc[2] = "send_result"
    /\ result[2].stdout = <<"s2", NL>>

(***************************************************************************)
(* The client's view of a finished connection: what execute() makes of the *)
(* bytes on the wire once it has received them all.                        *)
(***************************************************************************)
\* code_exec_client.py:158-161  the response is complete when the server has
\* closed a connection that is still intact
FullyReceived(c) == Done(c) /\ sock[c] = "open"

ClientView(c) == parse_response(wire[c])

\* the handler ended in SizeExceeded, DecodeFailed, TimedOut or InternalError
EndedInError(c) == Done(c) /\ ~escaped[c] /\ Attempted(c) \cap ErrorLines # {}

(***************************************************************************)
(* C11.  Whenever the process ends within the timeout, the handler's       *)
(* response is the success encoding, for every exit code, never an ERROR   *)
(* or SERVER ERROR line, and the client decodes the exit code of the       *)
(* process from it.  Violated: a process that ends within the timeout with *)
(* output that is not valid text gets the DecodeFailure line (see C16).    *)
(***************************************************************************)
C11_ExitCodeVerbatim ==
    \A c \in Conns :
        process[c] = "exited" /\ attempts[c] # <<>> =>
            /\ IsSuccessEncoding(FirstAttempt(c))
            /\ parse_response(FirstAttempt(c)).kind = "ExecutionResult"
            /\ parse_response(FirstAttempt(c)).return_code = result[c].returncode

(***************************************************************************)
(* C12.  A fully received response that begins with ERROR: or              *)
(* SERVER ERROR: makes execute() raise ServerResponseError with the        *)
(* response text in its message; and whenever the handler ended in an      *)
(* error outcome, execute() does not return an ExecutionResult.  Violated: *)
(* after a failed write of the success encoding the handler ends in        *)
(* InternalError (see C1), and the bytes on the wire parse as a result.    *)
(***************************************************************************)
C12_ErrorNeverResult ==
    \A c \in Conns :
        /\ FullyReceived(c) /\ StartsWithError(wire[c]) =>
              ClientView(c) =
                  ServerResponseError(<<"Server returned an error: ">> \o wire[c])
        /\ FullyReceived(c) /\ EndedInError(c) => ClientView(c).kind # "ExecutionResult"

(***************************************************************************)
(* C16.  Every exception of the Executing phase other than the timeout     *)
(* gets the SERVER ERROR line; the DecodeFailure line is written only from *)
(* the Reading phase, before a scratch directory or a process exists.      *)
(* Violated: the UnicodeDecodeError that subprocess.run raises for output  *)
(* that is not valid text is caught at server.py:80.                       *)
(***************************************************************************)
C16_DecodeOnlyFromReading ==
    \A c \in Conns :
        /\ DecodeErrLine \in Attempted(c) => exec_dir[c] = "none" /\ process[c] = "none"
        /\ exec_dir[c] # "none" /\ ~TimedOut(c) /\ process[c] # "exited" =>
              Attempted(c) \subseteq {ServerErrLine}

(***************************************************************************)
(* C17.  A failed write of the response is swallowed: no exception leaves  *)
(* handle().  Violated: a sendall that fails at server.py:82 or 89 is      *)
(* inside an except clause, so nothing catches it.                         *)
(***************************************************************************)
C17_WriteFailureSwallowed ==
    \A c \in Conns : ~escaped[c]

(***************************************************************************)
(* C13  _parse_response returns an ExecutionResult only for a response     *)
(* that contains, in this order, the header block, a `Return Code:` line   *)
(* with an integer value, the `--- STDOUT ---` marker and the              *)
(* `--- STDERR ---` marker; every other response, the empty one and a      *)
(* truncated success response included, raises ServerResponseError.        *)
(***************************************************************************)
\* the line that starts at position i, without its newline
LineFrom(s, i) ==
    LET t == SubSeq(s, i, Len(s))
        f == Find(t, <<NL>>)
    IN  IF f = 0 THEN t ELSE SubSeq(t, 1, f - 1)

ReturnCodeLineAt(s, j) ==
    /\ s[j] = RCP
    /\ j = 1 \/ s[j - 1] = NL
    /\ IsInt(SubSeq(LineFrom(s, j), 2, Len(LineFrom(s, j))))

WellFormed(s) ==
    \E i, j, k, l \in 1..Len(s) :
        /\ i < j /\ j < k /\ k < l
        /\ s[i] = HDR
        /\ ReturnCodeLineAt(s, j)
        /\ s[k] = OUTM
        /\ s[l] = ERRM

C13_OnlyWellFormed ==
    codec.at \in {"parsed", "raw_parsed"} =>
        (codec.parsed.kind = "ExecutionResult" <=> WellFormed(codec.response))

(***************************************************************************)
(* C20  The client classifies a response as an error only by the first     *)
(* characters of the whole response: a success encoding whose stdout or    *)
(* stderr has lines beginning with `ERROR:` or `SERVER ERROR:`, and no     *)
(* `--- STDERR ---` marker, is not reported as a server error and decodes  *)
(* to the identical (return_code, stdout, stderr).                         *)
(***************************************************************************)
HasErrorLine(t) ==
    \E i \in 1..Len(t) : t[i] \in {EPFX, SPFX} /\ (i = 1 \/ t[i - 1] = NL)

C20_ErrorLinesInOutput ==
    /\ codec.at = "parsed"
    /\ HasErrorLine(codec.stdout) \/ HasErrorLine(codec.stderr)
    /\ ~Contains(codec.stdout, <<ERRM>>) /\ ~Contains(codec.stderr, <<ERRM>>)
    => /\ ~StartsWithError(codec.response)
       /\ codec.parsed = ExecutionResult(codec.returncode, codec.stdout, codec.stderr)

C20_Witness ==
    /\ codec.at = "parsed"
    /\ codec.stdout = <<EPFX, OUTM>>
    /\ codec.stderr = <<NL, SPFX>>
    /\ codec.parsed = ExecutionResult(codec.returncode, codec.stdout, codec.stderr)

(***************************************************************************)
(* The client: one CodeExecutionClient object, its calls and the           *)
(* connection it holds.  The server side and the network are the           *)
(* environment: they choose the response bytes, and where a call fails.    *)
(***************************************************************************)
MaxCalls == 3

MaxConnects == 2

server_vars == <<pc, peer_vars, peer_shut, read_vars, io_vars, exec_dir, proc_vars, exc,
                 escaped, fs_vars, codec>>

CodeExecutionError(msg) == [kind |-> "CodeExecutionError", message |-> msg]

ServerConnectionError(msg) == [kind |-> "ServerConnectionError", message |-> msg]

\* not a CodeExecutionError: raised by bytearray.decode("utf-8")
UnicodeDecodeError == [kind |-> "UnicodeDecodeError"]

\* code_exec_client.py:163-165
NetworkError(e) == CodeExecutionError(<<"A network error occurred: ", e>>)

\* code_exec_client.py:202
ReceiveTimeout == ServerResponseError(<<"Timed out while waiting for server response.">>)

\* what the server side can have written when the client starts to read
ClientResponses ==
    LET ok == Encode(0, <<"ok", NL>>, <<>>)
    IN  {ok, SubSeq(ok, 1, Find(ok, <<ERRM>>) - 1), SizeErrLine, ServerErrLine, <<>>}

\* a socket whose write side is left open by shutdown(SHUT_WR)
AfterShutdownStillOpen(w) == w

\* socket.shutdown(SHUT_WR): the write side is closed
AfterShutdown(w) == "shut"

\* code_exec_client.py:94-117
connect ==
    /\ client.at = "idle"
    /\ client.connects < MaxConnects
    /\ IF client.socket # "None"
       THEN client' = client
       ELSE \E connected \in BOOLEAN :
               client' = IF connected
                         THEN [client EXCEPT !.socket = "sock", !.wr = "open",
                                             !.connects = @ + 1, !.results = 0,
                                             !.half_closed = FALSE, !.late = FALSE,
                                             !.incoming = <<>>, !.buffer = <<>>]
                         ELSE [client EXCEPT !.socket = "None", !.connects = @ + 1]
    /\ UNCHANGED server_vars

\* code_exec_client.py:119-130
close ==
    /\ client.at = "idle"
    /\ client.socket # "None"
    /\ client' = [client EXCEPT !.socket = "None", !.wr = "none"]
    /\ UNCHANGED server_vars

\* code_exec_client.py:132-151  a call of execute(), up to the test of _socket
execute ==
    /\ client.at = "idle"
    /\ client.calls < MaxCalls
    /\ client' = [client EXCEPT
          !.calls = @ + 1,
          !.timed_out = FALSE,
          !.began_half_closed = client.socket # "None" /\ client.half_closed,
          !.at = IF client.socket = "None" THEN "idle" ELSE "sendall",
          !.outcome = IF client.socket = "None"
                      THEN ServerConnectionError(
                              <<"Client is not connected. Call connect() first.">>)
                      ELSE NoOutcome]
    /\ UNCHANGED server_vars

\* code_exec_client.py:155  sendall(code.encode("utf-8"))
ClientSendall ==
    /\ client.at = "sendall"
    /\ \E o \in {"ok", "timed out", "Connection reset by peer"} :
          client' =
             IF client.wr # "open"
             THEN [client EXCEPT !.at = "idle", !.outcome = NetworkError("Broken pipe")]
             ELSE IF o = "ok"
             THEN [client EXCEPT !.at = "shutdown",
                                 !.late = @ \/ client.half_closed]
             ELSE [client EXCEPT !.at = "idle", !.outcome = NetworkError(o),
                                 !.late = @ \/ (o = "timed out" /\ client.half_closed),
                                 !.wr = IF o = "timed out" THEN @ ELSE "broken"]
    /\ UNCHANGED server_vars

\* code_exec_client.py:156  shutdown(SHUT_WR), after which the server answers
ClientShutdown ==
    /\ client.at = "shutdown"
    /\ \/ \E r \in ClientResponses, v \in BOOLEAN :
             /\ r = <<>> => v
             /\ client' = [client EXCEPT !.at = "recv", !.wr = AfterShutdown(@),
                                         !.half_closed = TRUE, !.buffer = <<>>,
                                         !.incoming = r, !.incoming_valid = v]
       \/ client' = [client EXCEPT !.at = "idle", !.wr = "broken",
                                   !.outcome = NetworkError("Transport endpoint is not connected")]
    /\ UNCHANGED server_vars

\* the sizes recv(4096) can return: all that is left, or the first line of it
ClientChunks(rest) ==
    {Len(rest)} \cup {Find(rest, <<NL>>) : x \in {y \in {1} : Find(rest, <<NL>>) > 0}}

\* code_exec_client.py:194-203  one turn of the loop of _receive_all
receive_all ==
    /\ client.at = "recv"
    /\ \/ /\ client.incoming # <<>>
          /\ \E n \in ClientChunks(client.incoming) :
                client' = [client EXCEPT
                             !.buffer = @ \o SubSeq(client.incoming, 1, n),
                             !.incoming = SubSeq(@, n + 1, Len(@))]
       \/ /\ client.incoming = <<>>
          /\ client' = [client EXCEPT !.at = "decode"]
       \/ client' = [client EXCEPT !.at = "idle", !.timed_out = TRUE,
                                   !.outcome = ReceiveTimeout]
       \/ client' = [client EXCEPT !.at = "idle", !.wr = "broken",
                                   !.outcome = NetworkError("Connection reset by peer")]
    /\ UNCHANGED server_vars

\* code_exec_client.py:205  buffer.decode("utf-8")
ReceiveDecode ==
    /\ client.at = "decode"
    /\ client' = IF client.incoming_valid
                 THEN [client EXCEPT !.at = "parse"]
                 ELSE [client EXCEPT !.at = "idle", !.outcome = UnicodeDecodeError]
    /\ UNCHANGED server_vars

\* code_exec_client.py:161  return self._parse_response(response)
ClientParse ==
    /\ client.at = "parse"
    /\ LET r == parse_response(client.buffer)
       IN  client' = [client EXCEPT
                        !.at = "idle", !.outcome = r,
                        !.results = IF r.kind = "ExecutionResult" THEN @ + 1 ELSE @]
    /\ UNCHANGED server_vars

NextClient ==
    \/ connect
    \/ close
    \/ execute
    \/ ClientSendall
    \/ ClientShutdown
    \/ receive_all
    \/ ReceiveDecode
    \/ ClientParse

SpecClient == Init /\ [][NextClient]_vars

\* the exceptions execute() documents: CodeExecutionError and its subclasses
ErrorFamily == {"CodeExecutionError", "ServerConnectionError", "ServerResponseError"}

Returned == client.at = "idle" /\ client.outcome # NoOutcome

(***************************************************************************)
(* C14  Every call of execute(), in every client state and for every       *)
(* response and failure of the server side or network, ends by returning   *)
(* a fully populated ExecutionResult or by raising CodeExecutionError,     *)
(* ServerConnectionError or ServerResponseError; no other exception        *)
(* reaches the caller.                                                     *)
(***************************************************************************)
C14_TypedOutcome ==
    Returned =>
        \/ client.outcome.kind \in ErrorFamily
        \/ /\ client.outcome.kind = "ExecutionResult"
           /\ DOMAIN client.outcome = {"kind", "return_code", "stdout", "stderr"}
           /\ client.outcome.return_code \in Int

(***************************************************************************)
(* C15  A socket timeout while the client waits for response data raises   *)
(* an error distinct from the errors raised for an error-prefixed or       *)
(* unparsable response, and the bytes accumulated so far are never parsed  *)
(* or returned as an ExecutionResult.                                      *)
(***************************************************************************)
C15_TimeoutDistinct ==
    client.timed_out =>
        /\ client.outcome.kind # "ExecutionResult"
        /\ client.outcome.kind # ParseFailure(client.buffer).kind
        /\ client.outcome.kind # parse_response(SizeErrLine).kind

(***************************************************************************)
(* C19  On one client connection at most one execute() returns an          *)
(* ExecutionResult: a call made after an execute() has half-closed the     *)
(* write side, with no close() and connect() in between, fails at its      *)
(* sendall with a CodeExecutionError and delivers nothing to the server.   *)
(***************************************************************************)
C19_OneExecutionPerConnection ==
    /\ client.results <= 1
    /\ ~client.late
    /\ client.began_half_closed =>
          /\ client.at \in {"idle", "sendall"}
          /\ client.at = "idle" => client.outcome.kind \in ErrorFamily

C19_Witness ==
    /\ client.began_half_closed
    /\ client.results = 1
    /\ client.outcome = NetworkError("Broken pipe")

(***************************************************************************)
(* SpecLive: one connection whose handler thread and whose child process   *)
(* are scheduled fairly.  The peer and the network are not: the peer may   *)
(* never half-close, never read, never reset.  The process may write more  *)
(* than the socket buffers hold.                                           *)
(***************************************************************************)
LiveSizes == {1, MAX_SCRIPT_SIZE + 1}

LiveOuts == {<<"ok", NL>>, <<BULK>>}

\* the steps of the thread that runs handle()
Handler(c) ==
    \/ CheckSize(c)
    \/ SendSizeError(c, AllFaults)
    \/ Recv(c)
    \/ Decode(c)
    \/ MakeTempDir(c)
    \/ WriteScript(c)
    \/ StartProcess(c)
    \/ SendResult(c, AllFaults)
    \/ SendTimeout(c, AllFaults)
    \/ Cleanup(c)
    \/ ExceptDecode(c, AllFaults)
    \/ ExceptAny(c, AllFaults)
    \/ Finally(c)

\* subprocess.run(timeout=EXECUTION_TIMEOUT): the process ends or the timer does
Child(c) ==
    \/ ProcessExits(c, {0}, LiveOuts, {<<>>}, BOOLEAN)
    \/ TimeoutExpires(c, LiveOuts)

NextLive ==
    \/ Accept(1, LiveSizes, BOOLEAN, {ScriptOf(1)}, BOOLEAN)
    \/ PeerShutdown(1)
    \/ PeerReset(1)
    \/ Handler(1)
    \/ Child(1)

SpecLive == Init /\ [][NextLive]_vars /\ WF_vars(Handler(1)) /\ WF_vars(Child(1))

(***************************************************************************)
(* C18  Every accepted connection whose peer half-closes its write side,   *)
(* or sends more than the maximum size, eventually reaches the Closed      *)
(* state (handler finished, socket closed), under fair scheduling.         *)
(***************************************************************************)
C18_EventuallyClosed ==
    (pc[1] # "idle" /\ (peer_shut[1] \/ total[1] > MAX_SCRIPT_SIZE)) ~> Done(1)

====
